---------------------------- MODULE Spec2Model ----------------------------
(***************************************************************************)
(* flickable-scroll: the position tracker (src/unnamed/part_000, class     *)
(* Tracker) and the scroll gesture state machine with its touch and mouse  *)
(* adapters (src/unnamed/part_001, classes Scroller, TouchScroller,        *)
(* MouseScroller).                                                         *)
(*                                                                         *)
(* Numbers.  The code computes in IEEE doubles.  Here every stored length  *)
(* (position, bound, size, distance) is a fixed-point number: an integer   *)
(* count of 1/Res px.  Sums and differences are exact; a product or a      *)
(* quotient that is stored as a length is truncated toward zero to the     *)
(* 1/Res grid, and a stored duration to the millisecond.  Ratios that are  *)
(* only compared (overflowRatio, velocity) are kept as exact fractions     *)
(* [num, den].  The three non-finite doubles are kept as three reserved    *)
(* values (Infinity, -Infinity, NaN) with the IEEE rules for them.         *)
(***************************************************************************)
EXTENDS Integers, Sequences, FiniteSets, TLC

(***************************************************************************)
(* Bounds of the model.                                                    *)
(***************************************************************************)
\* the clock stops advancing at MaxTime ms
MaxTime == 300
\* grid units per px
Res == 2

\* Date.now() advances, and animation frames arrive, in these steps (ms)
TimeSteps == {100, 200}
\* sizes getElementSize can report for the container (px)
ContainerSizes == {0, 4}
\* the children's sizes getElementSize can report (px), one entry per child
ChildrenSizes == {<<2>>, <<3, 5>>}
\* clientX / clientY of a pointer event along the scroll axis (px)
ClientCoords == {0, 3}
\* direct calls of the tracker's API: how many, and their arguments (px)
MaxCalls == 7
TrackerTargets == {-3, 1}
TrackerDistances == {2}

\* null, and a value held by a nullable field
Null == <<>>
Some(x) == <<x>>
ValueOf(box) == box[1]

(***************************************************************************)
(* JavaScript numbers.                                                     *)
(***************************************************************************)
Infinity == 1000 * 1000
NaN == 2 * Infinity

IsNaN(x) == x = NaN
IsFinite(x) == x > -Infinity /\ x < Infinity

JsNeg(x) == IF IsNaN(x) THEN NaN ELSE 0 - x

JsAdd(x, y) ==
  IF IsNaN(x) \/ IsNaN(y) THEN NaN
  ELSE IF ~IsFinite(x) THEN (IF ~IsFinite(y) /\ y # x THEN NaN ELSE x)
  ELSE IF ~IsFinite(y) THEN y
  ELSE x + y

JsSub(x, y) == JsAdd(x, JsNeg(y))

JsLt(x, y) == ~IsNaN(x) /\ ~IsNaN(y) /\ x < y
JsLe(x, y) == ~IsNaN(x) /\ ~IsNaN(y) /\ x <= y
JsGt(x, y) == JsLt(y, x)
JsGe(x, y) == JsLe(y, x)
\* x === y and x !== y
JsEq(x, y) == ~IsNaN(x) /\ ~IsNaN(y) /\ x = y
JsNe(x, y) == ~JsEq(x, y)

JsAbs(x) == IF IsNaN(x) THEN NaN ELSE IF x < 0 THEN 0 - x ELSE x

\* floor(a * b / c) and the remainder, for a, b >= 0 and c > 0, without an
\* intermediate beyond 32 bits (binary long multiplication)
RECURSIVE MulDivQR(_, _, _)
MulDivQR(a, b, c) ==
  IF b = 0 THEN <<0, 0>>
  ELSE LET h == MulDivQR(a, b \div 2, c)
           t == 2 * h[2] + (b % 2) * a
       IN  <<2 * h[1] + (t \div c), t % c>>

MulDiv(a, b, c) == MulDivQR(a, b, c)[1]

\* x * (n / d) as a stored length, n > = 0, d > 0: truncated toward zero
Scale(x, n, d) ==
  IF x < 0 THEN 0 - MulDiv(0 - x, n, d) ELSE MulDiv(x, n, d)

\* utils/sign
sign(x) == IF IsNaN(x) THEN NaN ELSE IF x > 0 THEN 1 ELSE IF x < 0 THEN -1 ELSE 0

\* utils/clamp
clamp(value, lo, hi) ==
  IF IsNaN(value) THEN NaN
  ELSE IF value < lo THEN lo ELSE IF value > hi THEN hi ELSE value

(***************************************************************************)
(* State.                                                                  *)
(***************************************************************************)
VARIABLES
  now,                    \* Date.now(), ms
  reverse,                \* options.reverse
  adapter,                \* "touch" (TouchScroller) or "mouse" (MouseScroller)
  containerSize,          \* what getElementSize reports for the container, px
  childrenSize,           \* what it reports for each child, px
  minPosition, maxPosition, minOverflowPosition, maxOverflowPosition,
  position,               \* Tracker._position
  measurements,           \* Tracker.measurements
  scrollLock,             \* Scroller.scrollLock
  animations,             \* Animator: the segments still to run, current first
  segmentStart,           \* Animator: when the current segment started
  scheduledBy,            \* the Scroller method that gave the animator this batch
  currentTouchPosition,   \* TouchScroller.currentTouchPosition
  currentMousePosition,   \* MouseScroller.currentMousePosition
  listening,              \* the adapter's DOM listeners are registered
  subscribers,            \* Events: the scroller events that have a handler
  calls,                  \* how many direct calls of the tracker's API were made
  last                    \* the last step and what it called

tracker == <<minPosition, maxPosition, minOverflowPosition, maxOverflowPosition,
             position, measurements>>
ranges == <<minPosition, maxPosition, minOverflowPosition, maxOverflowPosition>>
sizes == <<containerSize, childrenSize>>
animator == <<animations, segmentStart, scheduledBy>>
pointers == <<currentTouchPosition, currentMousePosition>>
options == <<reverse, adapter>>
vars == <<now, options, sizes, tracker, scrollLock, animator, pointers,
          listening, subscribers, calls, last>>

(***************************************************************************)
(* Tracker (src/unnamed/part_000).                                         *)
(***************************************************************************)
\* getElementSize(element, direction), in grid units
getElementSize(px) == px * Res

\* children.reduce((a, b) => a + getElementSize(b, direction), 0)
RECURSIVE reduceSize(_)
reduceSize(children) ==
  IF children = <<>> THEN 0
  ELSE reduceSize(SubSeq(children, 1, Len(children) - 1))
         + getElementSize(children[Len(children)])

\* the four range fields the constructor computes
constructorRanges(container, children, rev) ==
  LET containerSz == getElementSize(container)
      childrenSz == reduceSize(children)
      scrollSize == childrenSz - containerSz
      minP == IF rev THEN 0 ELSE scrollSize * (-1)
      maxP == IF rev THEN scrollSize ELSE 0
      maxOverflow == containerSz \div 2
  IN  [minPosition |-> minP, maxPosition |-> maxP,
       minOverflowPosition |-> minP - maxOverflow,
       maxOverflowPosition |-> maxP + maxOverflow]

\* resize() as it would be if it forgot options.reverse
resizeRangesIgnoringReverse(container, children, rev) ==
  constructorRanges(container, children, FALSE)

\* the four range fields resize() computes
resizeRanges(container, children, rev) ==
  LET containerSz == getElementSize(container)
      childrenSz == reduceSize(children)
      scrollSize == childrenSz - containerSz
      minP == IF rev THEN 0 ELSE scrollSize * (-1)
      maxP == IF rev THEN scrollSize ELSE 0
      maxOverflow == containerSz \div 2
  IN  [minPosition |-> minP, maxPosition |-> maxP,
       minOverflowPosition |-> minP - maxOverflow,
       maxOverflowPosition |-> maxP + maxOverflow]

\* A ratio: the fraction num / den with num >= 0; den = 0 or num = Infinity is
\* the double Infinity (a nonzero number divided by zero)
Ratio(num, den) == [num |-> num, den |-> den]
IsInfiniteRatio(r) == r.den = 0 \/ r.num = Infinity

\* get overflowRatio, for a position p and the range fields as they are
overflowRatioAt(p, minP, maxP, minO, maxO) ==
  IF JsLt(p, minP)
    THEN Ratio(JsAbs(JsSub(p, minP)), JsAbs(minP - minO))
  ELSE IF JsGt(p, maxP)
    THEN Ratio(JsAbs(JsSub(p, maxP)), JsAbs(maxP - maxO))
  ELSE Ratio(0, 1)

overflowRatio ==
  overflowRatioAt(position, minPosition, maxPosition,
                  minOverflowPosition, maxOverflowPosition)

\* measure() as it would be with slice(0, 6): the newest sample is dropped
measureKeepingOldest(ms, measurement) ==
  LET pushed == Append(ms, measurement)
  IN  IF Len(pushed) > 6 THEN SubSeq(pushed, 1, 6) ELSE pushed

\* measure(measurement): the window after the push
measure(ms, measurement) ==
  LET pushed == Append(ms, measurement)
  IN  IF Len(pushed) > 6
        THEN SubSeq(pushed, Len(pushed) - 5, Len(pushed))
        ELSE pushed

Measurement(p, d, t) == [position |-> p, distance |-> d, timestamp |-> t]

\* to(to): the tracker's fields after the call
to(target) ==
  LET distance == JsSub(target, position)
  IN  /\ position' = target
      /\ measurements' = measure(measurements, Measurement(target, distance, now'))

\* move(distance): the tracker's fields after the call
trackerMove(distance) ==
  /\ position' = JsAdd(position, distance)
  /\ measurements' =
       measure(measurements, Measurement(JsAdd(position, distance), distance, now'))

\* one step of the reduce in get velocity
velocityStep(accumulated, measurement, t) ==
  IF t - measurement.timestamp > 200 THEN accumulated
  ELSE
    LET acc1 == IF JsNe(accumulated.distance, 0)
                   /\ JsNe(sign(accumulated.distance), sign(measurement.distance))
                  THEN [distance |-> 0, duration |-> 0, prevTimestamp |-> Null]
                  ELSE accumulated
        acc2 == IF acc1.prevTimestamp # Null
                  THEN [acc1 EXCEPT
                          !.distance = JsAdd(@, measurement.distance),
                          !.duration = @ + (measurement.timestamp - ValueOf(acc1.prevTimestamp))]
                  ELSE acc1
    IN  [acc2 EXCEPT !.prevTimestamp = Some(measurement.timestamp)]

\* measurements.reduce(..., {distance: 0, duration: 0, prevTimestamp: null})
RECURSIVE velocityReduce(_, _)
velocityReduce(ms, t) ==
  IF ms = <<>> THEN [distance |-> 0, duration |-> 0, prevTimestamp |-> Null]
  ELSE velocityStep(velocityReduce(SubSeq(ms, 1, Len(ms) - 1), t), ms[Len(ms)], t)

\* get velocity, at Date.now() = t: the fraction distance / (duration || 1),
\* in grid units per ms
velocityAt(ms, t) ==
  LET acc == velocityReduce(ms, t)
  IN  [num |-> acc.distance, den |-> IF acc.duration = 0 THEN 1 ELSE acc.duration]

\* velocityToDistanceAndDuration(), for the velocity v.  With v = a / b px per
\* ms (a = |v.num|, b = v.den * Res), decelerationRate = 0.000000147 + (a/b)/250
\* = rate / (10^9 * b), so distance = a^2/b^2 / decelerationRate
\* = 10^9 * a^2 / (b * rate) px and duration = 2 * 10^9 * a / rate ms.
velocityToDistanceAndDurationOf(v) ==
  IF ~IsFinite(v.num) THEN [distance |-> NaN, duration |-> NaN]
  ELSE
    LET absVelocity == JsAbs(v.num)
        b == v.den * Res
        rate == 147 * b + 4000000 * absVelocity
    IN  [distance |->
           (MulDiv(1000000000, Res * absVelocity * absVelocity, rate) \div b)
             * sign(v.num),
         duration |-> MulDiv(1000000000, 2 * absVelocity, rate)]

(***************************************************************************)
(* Animator (./animator, not among the sources: modelled from the          *)
(* specification's description of the animation driver) and utils/easing.  *)
(***************************************************************************)
AnimationMeta(startPosition, distance, duration) ==
  [startPosition |-> startPosition, distance |-> distance, duration |-> duration]

\* start(animations): interrupts and replaces the current animation
animatorStart(batch, op) ==
  /\ animations' = batch
  /\ segmentStart' = now
  /\ scheduledBy' = op

\* stop(): halts immediately, leaves position wherever it was
animatorStop ==
  /\ animations' = <<>>
  /\ segmentStart' = now
  /\ scheduledBy' = "none"

\* startPosition + distance * easeOutCubic(elapsed / duration), before the
\* segment's end: easeOutCubic(t) = 1 - (1 - t)^3
interpolate(segment, elapsed) ==
  IF ~IsFinite(segment.distance) \/ ~IsFinite(segment.duration)
       \/ ~IsFinite(segment.startPosition)
    THEN NaN
  ELSE
    LET d == segment.duration
        rest == d - elapsed
    IN  segment.startPosition
          + Scale(segment.distance, d * d * d - rest * rest * rest, d * d * d)

\* one frame of the running segment, at time t: the tracker's absolute set,
\* once, with the interpolated value; a segment whose duration has elapsed
\* is set to its end and the next one becomes current
animatorFrame(t) ==
  LET segment == Head(animations)
      elapsed == t - segmentStart
  IN  IF JsGe(elapsed, segment.duration)
        THEN /\ to(JsAdd(segment.startPosition, segment.distance))
             /\ animations' = Tail(animations)
             /\ segmentStart' = t
             /\ scheduledBy' = IF Tail(animations) = <<>> THEN "none" ELSE scheduledBy
        ELSE /\ to(interpolate(segment, elapsed))
             /\ UNCHANGED animator

(***************************************************************************)
(* Scroller (src/unnamed/part_001).                                        *)
(***************************************************************************)
\* What a handler did: the DOM or API event, the Scroller method it reached
\* ("none" when it returned before), scrollLock on entry, the number of
\* animator.start and animator.stop calls it made, the events emitted and
\* the ones a subscribed handler received
Call(event, op, starts, stops, emitted) ==
  [event |-> event, op |-> op, locked |-> scrollLock, starts |-> starts,
   stops |-> stops, emitted |-> emitted,
   delivered |-> SelectSeq(emitted, LAMBDA e : e \in subscribers)]

\* start()
start(event) ==
  IF scrollLock
    THEN /\ UNCHANGED animator
         /\ last' = Call(event, "start", 0, 0, <<>>)
    ELSE /\ animatorStop
         /\ last' = Call(event, "start", 0, 1, <<"scrollStart">>)

\* 1 - overflowRatio
oneMinus(r) ==
  IF IsInfiniteRatio(r) THEN [num |-> -Infinity, den |-> 1]
  ELSE [num |-> r.den - r.num, den |-> r.den]

\* move(): const distanceRatio = ...
distanceRatio(distance) ==
  IF JsNe(sign(position), sign(distance)) THEN [num |-> 1, den |-> 1]
  ELSE oneMinus(overflowRatio)

\* distance * distanceRatio
times(distance, r) ==
  IF r.num = -Infinity
    THEN (IF distance > 0 THEN -Infinity ELSE IF distance < 0 THEN Infinity ELSE NaN)
  ELSE IF r.num < 0 THEN 0 - Scale(distance, 0 - r.num, r.den)
  ELSE Scale(distance, r.num, r.den)

\* move(): the batch given to animator.start
moveAnimations(distance) ==
  <<AnimationMeta(position, times(distance, distanceRatio(distance)), 0)>>

\* move() as it would be without its scrollLock guard
moveIgnoringLock(event, distance) ==
  /\ animatorStart(moveAnimations(distance), "move")
  /\ last' = Call(event, "move", 1, 0, <<"scrollMove">>)

\* move({ distance })
move(event, distance) ==
  IF scrollLock
    THEN /\ UNCHANGED animator
         /\ last' = Call(event, "move", 0, 0, <<>>)
    ELSE /\ animatorStart(moveAnimations(distance), "move")
         /\ last' = Call(event, "move", 1, 0, <<"scrollMove">>)

\* end() as it would be if the snap-back started at the unclamped projection
endAnimationsUnclamped ==
  IF JsLt(position, minPosition)
    THEN <<AnimationMeta(position, JsSub(minPosition, position), 200)>>
  ELSE IF JsGt(position, maxPosition)
    THEN <<AnimationMeta(position, JsSub(maxPosition, position), 200)>>
  ELSE
    LET dd == velocityToDistanceAndDurationOf(velocityAt(measurements, now))
        fling == AnimationMeta(position, dd.distance, dd.duration)
        nextPosition == JsAdd(position, dd.distance)
    IN  IF JsLe(nextPosition, minPosition)
          THEN <<fling,
                 AnimationMeta(nextPosition, JsSub(minPosition, nextPosition), 300)>>
        ELSE IF JsGe(nextPosition, maxPosition)
          THEN <<fling,
                 AnimationMeta(nextPosition, JsSub(maxPosition, nextPosition), 300)>>
        ELSE <<fling>>

\* end(): the batch given to animator.start
endAnimations ==
  IF JsLt(position, minPosition)
    THEN <<AnimationMeta(position, JsSub(minPosition, position), 200)>>
  ELSE IF JsGt(position, maxPosition)
    THEN <<AnimationMeta(position, JsSub(maxPosition, position), 200)>>
  ELSE
    LET dd == velocityToDistanceAndDurationOf(velocityAt(measurements, now))
        fling == AnimationMeta(position, dd.distance, dd.duration)
        nextPosition == JsAdd(position, dd.distance)
    IN  IF JsLe(nextPosition, minPosition)
          THEN LET startPosition == clamp(nextPosition, minOverflowPosition, minPosition)
               IN  <<fling,
                     AnimationMeta(startPosition, JsSub(minPosition, startPosition), 300)>>
        ELSE IF JsGe(nextPosition, maxPosition)
          THEN LET startPosition == clamp(nextPosition, maxPosition, maxOverflowPosition)
               IN  <<fling,
                     AnimationMeta(startPosition, JsSub(maxPosition, startPosition), 300)>>
        ELSE <<fling>>

\* end()
end(event) ==
  IF scrollLock
    THEN /\ UNCHANGED animator
         /\ last' = Call(event, "end", 0, 0, <<>>)
    ELSE /\ animatorStart(endAnimations, "end")
         /\ last' = Call(event, "end", 1, 0, <<"scrollEnd">>)

\* lock()
lock ==
  /\ scrollLock' = TRUE
  /\ last' = Call("lock", "lock", 0, 0, <<>>)
  /\ UNCHANGED <<now, options, sizes, tracker, animator, pointers, listening, subscribers, calls>>

\* unlock()
unlock ==
  /\ scrollLock' = FALSE
  /\ last' = Call("unlock", "unlock", 0, 0, <<>>)
  /\ UNCHANGED <<now, options, sizes, tracker, animator, pointers, listening, subscribers, calls>>

\* destroy() as it would be without animator.stop()
scrollerDestroyKeepingAnimation ==
  /\ subscribers' = {}
  /\ UNCHANGED animator
  /\ last' = Call("destroy", "destroy", 0, 0, <<>>)

\* Scroller.destroy(), reached through the adapter's destroy()
scrollerDestroy ==
  /\ subscribers' = {}
  /\ animatorStop
  /\ last' = Call("destroy", "destroy", 0, 1, <<>>)

(***************************************************************************)
(* TouchScroller and MouseScroller.                                        *)
(***************************************************************************)
\* parseTouch(touch).position / parseEvent(e).position, in grid units
parsePosition(client) == client * Res

touchstart(client) ==
  /\ adapter = "touch" /\ listening
  /\ currentTouchPosition' = Some(parsePosition(client))
  /\ start("touchstart")
  /\ UNCHANGED <<now, options, sizes, tracker, scrollLock, currentMousePosition,
                 listening, subscribers, calls>>

touchmove(client) ==
  /\ adapter = "touch" /\ listening
  /\ IF currentTouchPosition = Null
       THEN /\ last' = Call("touchmove", "none", 0, 0, <<>>)
            /\ UNCHANGED <<animator, currentTouchPosition>>
       ELSE /\ move("touchmove", parsePosition(client) - ValueOf(currentTouchPosition))
            /\ currentTouchPosition' = Some(parsePosition(client))
  /\ UNCHANGED <<now, options, sizes, tracker, scrollLock, currentMousePosition,
                 listening, subscribers, calls>>

touchend ==
  /\ adapter = "touch" /\ listening
  /\ currentTouchPosition' = Null
  /\ end("touchend")
  /\ UNCHANGED <<now, options, sizes, tracker, scrollLock, currentMousePosition,
                 listening, subscribers, calls>>

touchDestroy ==
  /\ adapter = "touch"
  /\ listening' = FALSE
  /\ scrollerDestroy
  /\ UNCHANGED <<now, options, sizes, tracker, scrollLock, pointers, calls>>

mousedown(client) ==
  /\ adapter = "mouse" /\ listening
  /\ currentMousePosition' = Some(parsePosition(client))
  /\ start("mousedown")
  /\ UNCHANGED <<now, options, sizes, tracker, scrollLock, currentTouchPosition,
                 listening, subscribers, calls>>

mousemove(client) ==
  /\ adapter = "mouse" /\ listening
  /\ IF currentMousePosition = Null
       THEN /\ last' = Call("mousemove", "none", 0, 0, <<>>)
            /\ UNCHANGED <<animator, currentMousePosition>>
       ELSE /\ move("mousemove", parsePosition(client) - ValueOf(currentMousePosition))
            /\ currentMousePosition' = Some(parsePosition(client))
  /\ UNCHANGED <<now, options, sizes, tracker, scrollLock, currentTouchPosition,
                 listening, subscribers, calls>>

\* the listener of both "mouseup" and "mouseleave"
mouseup(event) ==
  /\ adapter = "mouse" /\ listening
  /\ currentMousePosition' = Null
  /\ end(event)
  /\ UNCHANGED <<now, options, sizes, tracker, scrollLock, currentTouchPosition,
                 listening, subscribers, calls>>

mouseDestroy ==
  /\ adapter = "mouse"
  /\ listening' = FALSE
  /\ scrollerDestroy
  /\ UNCHANGED <<now, options, sizes, tracker, scrollLock, pointers, calls>>

(***************************************************************************)
(* The collaborators' steps: the ResizeObserver callback, the animation    *)
(* frame, the passage of time.                                             *)
(***************************************************************************)
\* resize() as it would be if it also discarded the recorded samples
resizeDroppingMeasurements(container, children) ==
  LET r == resizeRanges(container, children, reverse)
  IN  /\ containerSize' = container
      /\ childrenSize' = children
      /\ minPosition' = r.minPosition
      /\ maxPosition' = r.maxPosition
      /\ minOverflowPosition' = r.minOverflowPosition
      /\ maxOverflowPosition' = r.maxOverflowPosition
      /\ measurements' = <<>>
      /\ last' = Call("resize", "resize", 0, 0, <<>>)
      /\ UNCHANGED <<now, options, position, scrollLock, animator,
                     pointers, listening, subscribers, calls>>

\* The observed sizes become (container, children) and the ResizeObserver runs
\* Tracker.resize()
resize(container, children) ==
  LET r == resizeRanges(container, children, reverse)
  IN  /\ containerSize' = container
      /\ childrenSize' = children
      /\ minPosition' = r.minPosition
      /\ maxPosition' = r.maxPosition
      /\ minOverflowPosition' = r.minOverflowPosition
      /\ maxOverflowPosition' = r.maxOverflowPosition
      /\ last' = Call("resize", "resize", 0, 0, <<>>)
      /\ UNCHANGED <<now, options, position, measurements, scrollLock, animator,
                     pointers, listening, subscribers, calls>>

\* dt ms later the next animation frame runs the current segment
Frame(dt) ==
  /\ animations # <<>>
  /\ now + dt <= MaxTime
  /\ now' = now + dt
  /\ animatorFrame(now + dt)
  /\ last' = Call("frame", "frame", 0, 0, <<>>)
  /\ UNCHANGED <<options, sizes, ranges, scrollLock, pointers, listening, subscribers, calls>>

\* dt ms pass
Tick(dt) ==
  /\ now + dt <= MaxTime
  /\ now' = now + dt
  /\ last' = Call("tick", "tick", 0, 0, <<>>)
  /\ UNCHANGED <<options, sizes, tracker, scrollLock, animator, pointers,
                 listening, subscribers, calls>>

(***************************************************************************)
(* The scroller: new TouchScroller(container, options) or                  *)
(* new MouseScroller(container, options), then any handler.                *)
(***************************************************************************)
Init ==
  /\ now = 0
  /\ reverse \in BOOLEAN
  /\ adapter \in {"touch", "mouse"}
  /\ containerSize \in ContainerSizes
  /\ childrenSize \in ChildrenSizes
  /\ LET r == constructorRanges(containerSize, childrenSize, reverse)
     IN  /\ minPosition = r.minPosition
         /\ maxPosition = r.maxPosition
         /\ minOverflowPosition = r.minOverflowPosition
         /\ maxOverflowPosition = r.maxOverflowPosition
  /\ position = 0
  /\ measurements = <<>>
  /\ scrollLock = FALSE
  /\ animations = <<>>
  /\ segmentStart = 0
  /\ scheduledBy = "none"
  /\ currentTouchPosition = Null
  /\ currentMousePosition = Null
  /\ listening = TRUE
  /\ subscribers = {"scrollStart", "scrollMove", "scrollEnd"}
  /\ calls = 0
  /\ last = [event |-> "new", op |-> "constructor", locked |-> FALSE,
             starts |-> 0, stops |-> 0, emitted |-> <<>>, delivered |-> <<>>]

Next ==
  \/ \E c \in ClientCoords : touchstart(c)
  \/ \E c \in ClientCoords : touchmove(c)
  \/ touchend
  \/ touchDestroy
  \/ \E c \in ClientCoords : mousedown(c)
  \/ \E c \in ClientCoords : mousemove(c)
  \/ \E e \in {"mouseup", "mouseleave"} : mouseup(e)
  \/ mouseDestroy
  \/ lock
  \/ unlock
  \/ \E c \in ContainerSizes, ch \in ChildrenSizes : resize(c, ch)
  \/ \E dt \in TimeSteps : Frame(dt)
  \/ \E dt \in TimeSteps : Tick(dt)

Spec == Init /\ [][Next]_vars

(***************************************************************************)
(* The tracker alone, driven through its public methods (scroller.tracker  *)
(* is a public field): to(), move() and the clock.                         *)
(***************************************************************************)
\* tracker.to(target)
trackerToCall(target) ==
  /\ calls < MaxCalls
  /\ calls' = calls + 1
  /\ now' = now
  /\ to(target * Res)
  /\ last' = Call("to", "to", 0, 0, <<>>)
  /\ UNCHANGED <<options, sizes, ranges, scrollLock, animator, pointers,
                 listening, subscribers>>

\* tracker.move(distance), which emits the tracker's "move"
trackerMoveCall(distance) ==
  /\ calls < MaxCalls
  /\ calls' = calls + 1
  /\ now' = now
  /\ trackerMove(distance * Res)
  /\ last' = Call("move", "tracker.move", 0, 0, <<"move">>)
  /\ UNCHANGED <<options, sizes, ranges, scrollLock, animator, pointers,
                 listening, subscribers>>

InitTracker ==
  /\ Init
  /\ adapter = "touch"
  /\ containerSize = 4
  /\ childrenSize = <<3, 5>>

NextTracker ==
  \/ \E x \in TrackerTargets : trackerToCall(x)
  \/ \E d \in TrackerDistances : trackerMoveCall(d)
  \/ \E dt \in TimeSteps : Tick(dt)

SpecTracker == InitTracker /\ [][NextTracker]_vars

(***************************************************************************)
(* Properties.                                                             *)
(***************************************************************************)
InRange == JsGe(position, minPosition) /\ JsLe(position, maxPosition)
BelowRange == JsLt(position, minPosition)
AboveRange == JsGt(position, maxPosition)
\* the state is the one an unlocked end() has just left
UnlockedEnd == last.op = "end" /\ ~last.locked
\* what velocityToDistanceAndDuration() returns now, and where the fling ends
Fling == velocityToDistanceAndDurationOf(velocityAt(measurements, now))
ProjectedEnd == JsAdd(position, Fling.distance)
\* the distance argument of the move() this step makes
MoveDelta ==
  IF adapter = "touch"
    THEN ValueOf(currentTouchPosition') - ValueOf(currentTouchPosition)
    ELSE ValueOf(currentMousePosition') - ValueOf(currentMousePosition)

\* C1: while scrollLock is true, a call of start(), move() or end() leaves
\* position, the measurements and the animator as they are, calls neither
\* animator.start nor animator.stop and emits no event.
C1_LockedCallsAreInert ==
  [][(scrollLock /\ last'.op \in {"start", "move", "end"})
       => /\ position' = position
          /\ measurements' = measurements
          /\ animations' = animations
          /\ segmentStart' = segmentStart
          /\ last'.starts = 0
          /\ last'.stops = 0
          /\ last'.emitted = <<>>]_vars

\* a move() arrived under the lock while a segment was pending
C1_Witness == last.op = "move" /\ last.locked /\ animations # <<>>

\* C2: no unlocked move() is applied while an animation that an earlier end()
\* scheduled is still running, that is, without a stop in between.
C2_MoveNeverMeetsEndAnimation ==
  [][(~scrollLock /\ last'.op = "move")
       => ~(animations # <<>> /\ scheduledBy = "end")]_vars

\* C3: an unlocked end() with position outside the valid range schedules
\* exactly one segment, from position, of 200 ms, ending at the violated bound
\* (minPosition first, as end() tests it first).
C3_EndOutsideRangeSnapsBack ==
  (UnlockedEnd /\ (BelowRange \/ AboveRange))
    => /\ last.starts = 1
       /\ Len(animations) = 1
       /\ animations[1].startPosition = position
       /\ animations[1].duration = 200
       /\ JsEq(JsAdd(animations[1].startPosition, animations[1].distance),
               IF BelowRange THEN minPosition ELSE maxPosition)

\* C4: an unlocked end() with position inside the valid range whose projected
\* end lies beyond a bound gives animator.start, in one call, the fling and
\* then a 300 ms segment that starts at the projected end clamped into the
\* overflow range of that side and ends at the bound.
C4_FlingPastBoundChainsSnapBack ==
  (UnlockedEnd /\ InRange
     /\ (JsLt(ProjectedEnd, minPosition) \/ JsGt(ProjectedEnd, maxPosition)))
    => /\ last.starts = 1
       /\ Len(animations) = 2
       /\ animations[1] = AnimationMeta(position, Fling.distance, Fling.duration)
       /\ animations[2].duration = 300
       /\ IF JsLt(ProjectedEnd, minPosition)
            THEN /\ animations[2].startPosition =
                      (IF ProjectedEnd < minOverflowPosition
                         THEN minOverflowPosition ELSE ProjectedEnd)
                 /\ animations[2].startPosition + animations[2].distance = minPosition
            ELSE /\ animations[2].startPosition =
                      (IF ProjectedEnd > maxOverflowPosition
                         THEN maxOverflowPosition ELSE ProjectedEnd)
                 /\ animations[2].startPosition + animations[2].distance = maxPosition

\* a fling was released towards minPosition and projected beyond the overflow
\* bound, so the snap-back starts at the clamped value
C4_Witness ==
  /\ UnlockedEnd /\ InRange
  /\ JsLt(ProjectedEnd, minOverflowPosition)
  /\ minOverflowPosition < minPosition
  /\ Len(animations) = 2

\* C5: an unlocked end() with velocity 0 and position within
\* [minPosition, maxPosition], bounds included, schedules the one segment
\* {distance: 0, duration: 0} and no snap-back segment.
C5_RestingEndSchedulesOneSegment ==
  (UnlockedEnd /\ InRange /\ velocityAt(measurements, now).num = 0)
    => animations = <<AnimationMeta(position, 0, 0)>>

\* C6: in an unlocked move(delta), a delta that points from outside the valid
\* range back towards it is scheduled unmodified, and a scheduled distance
\* differs from delta only when the delta moves position further outward.
C6_InwardMoveIsNotDampened ==
  [][(~scrollLock /\ last'.op = "move")
       => LET inward == \/ BelowRange /\ MoveDelta > 0
                        \/ AboveRange /\ MoveDelta < 0
              outward == \/ BelowRange /\ MoveDelta < 0
                         \/ AboveRange /\ MoveDelta > 0
          IN  /\ inward => animations'[1].distance = MoveDelta
              /\ animations'[1].distance # MoveDelta => outward]_vars

\* C7: minPosition <= maxPosition, and with a nonzero container size
\* minOverflowPosition < minPosition and maxPosition < maxOverflowPosition.
C7_RangesOrdered ==
  /\ minPosition <= maxPosition
  /\ containerSize # 0 =>
       /\ minOverflowPosition < minPosition
       /\ maxPosition < maxOverflowPosition

\* the children's sizes added up, px
RECURSIVE SumOf(_)
SumOf(seq) == IF seq = <<>> THEN 0 ELSE Head(seq) + SumOf(Tail(seq))

\* C8: with scrollSize = sum of the children's sizes - container size, a
\* scroller that is not reversed has minPosition = -scrollSize and
\* maxPosition = 0, a reversed one minPosition = 0 and maxPosition =
\* scrollSize, and the overflow bounds lie containerSize / 2 beyond them.
C8_RangesFollowSizes ==
  LET scrollSize == (SumOf(childrenSize) - containerSize) * Res
  IN  /\ ~reverse => minPosition = 0 - scrollSize /\ maxPosition = 0
      /\ reverse => minPosition = 0 /\ maxPosition = scrollSize
      /\ 2 * (minPosition - minOverflowPosition) = containerSize * Res
      /\ 2 * (maxOverflowPosition - maxPosition) = containerSize * Res

\* resize() has run on a reversed scroller whose content exceeds its container
C8_Witness == last.op = "resize" /\ reverse /\ maxPosition > 0 /\ containerSize > 0

\* C9: measurements never holds more than 6 samples, and every to() and
\* move() appends one sample {position, distance = new position - old
\* position, timestamp} at the end, dropping the oldest one when there
\* were 6.
C9_WindowOfSix ==
  /\ [](Len(measurements) <= 6)
  /\ [][last'.op \in {"to", "tracker.move", "frame"}
          => LET sample == Measurement(position', JsSub(position', position), now')
             IN  measurements' =
                   IF Len(measurements) < 6
                     THEN Append(measurements, sample)
                     ELSE Append(Tail(measurements), sample)]_vars

\* a seventh sample was taken and pushed the first one out
C9_Witness == calls >= 7 /\ Len(measurements) = 6

\* a < b for two ratios
RatioLess(a, b) ==
  /\ ~IsInfiniteRatio(a)
  /\ IsInfiniteRatio(b) \/ a.num * b.den < b.num * a.den

\* C10: overflowRatio is 0 for a position within [minPosition, maxPosition],
\* grows strictly with the distance past the bound outside of it, and is 1
\* at minOverflowPosition and at maxOverflowPosition.
C10_OverflowRatioShape ==
  LET R(p) == overflowRatioAt(p, minPosition, maxPosition,
                              minOverflowPosition, maxOverflowPosition)
      Probes == (minOverflowPosition - 3) .. (maxOverflowPosition + 3)
  IN  /\ \A p \in Probes : (minPosition <= p /\ p <= maxPosition) => R(p).num = 0
      /\ \A p, q \in Probes : (p < q /\ q < minPosition) => RatioLess(R(q), R(p))
      /\ \A p, q \in Probes : (maxPosition < p /\ p < q) => RatioLess(R(p), R(q))
      /\ ~IsInfiniteRatio(R(minOverflowPosition))
      /\ R(minOverflowPosition).num = R(minOverflowPosition).den
      /\ ~IsInfiniteRatio(R(maxOverflowPosition))
      /\ R(maxOverflowPosition).num = R(maxOverflowPosition).den

\* C11: with a container of size 0 overflowRatio is 0 at every position, no
\* division by zero happens, and move() schedules only finite distances.
C11_ZeroContainerRatioIsZero ==
  containerSize = 0 =>
    /\ \A p \in (minPosition - 3) .. (maxPosition + 3) :
         LET r == overflowRatioAt(p, minPosition, maxPosition,
                                  minOverflowPosition, maxOverflowPosition)
         IN  ~IsInfiniteRatio(r) /\ r.num = 0
    /\ scheduledBy = "move" =>
         \A i \in 1 .. Len(animations) : IsFinite(animations[i].distance)

\* the samples get velocity considers at time t
InWindow(ms, t) == SelectSeq(ms, LAMBDA m : t - m.timestamp <= 200)

\* C12: the velocity of a single sample within the window is 0, and the
\* velocity of two same-direction samples within the window is the sum of
\* both distances over the time between them (10 and 10, 50 ms apart: 0.4).
C12_FirstSampleCountsDistance ==
  LET w == InWindow(measurements, now)
      v == velocityAt(measurements, now)
  IN  /\ (Len(measurements) = 1 /\ Len(w) = 1) => v.num = 0
      /\ (Len(measurements) = 2 /\ Len(w) = 2
            /\ w[1].distance # 0
            /\ sign(w[1].distance) = sign(w[2].distance)
            /\ w[2].timestamp > w[1].timestamp)
           => v.num * (w[2].timestamp - w[1].timestamp)
                = (w[1].distance + w[2].distance) * v.den

\* the most recent consistent-direction run of the samples w: the longest
\* suffix whose distances all have the sign of the last one
LastRun(w) ==
  IF w = <<>> THEN <<>>
  ELSE
    LET s == sign(w[Len(w)].distance)
        first == CHOOSE i \in 1 .. Len(w) :
                   /\ \A j \in i .. Len(w) : sign(w[j].distance) = s
                   /\ i = 1 \/ sign(w[i - 1].distance) # s
    IN  SubSeq(w, first, Len(w))

\* the distances of the samples w added up
RECURSIVE SumOfDistances(_)
SumOfDistances(w) ==
  IF w = <<>> THEN 0 ELSE Head(w).distance + SumOfDistances(Tail(w))

\* C13: the distance and the duration the velocity fold ends with come only
\* from the most recent consistent-direction run of the samples of the last
\* 200 ms: the duration is the time from the run's first sample to its last,
\* and the distance is the run's distances added up (with or without the
\* distance of the run's first sample, so that this does not depend on C12).
C13_OnlyLastRunCounts ==
  LET w == InWindow(measurements, now)
      run == LastRun(w)
      acc == velocityReduce(measurements, now)
  IN  (w # <<>> /\ \A i \in 1 .. Len(w) : w[i].distance # 0)
        => /\ acc.duration = run[Len(run)].timestamp - run[1].timestamp
           /\ acc.distance \in {SumOfDistances(run),
                                SumOfDistances(run) - run[1].distance}

\* the reference point of the drag the adapter is in, Null when there is none
DragReference ==
  IF adapter = "touch" THEN currentTouchPosition ELSE currentMousePosition

\* C14: destroy() leaves no active animation, no scrollStart/scrollMove/
\* scrollEnd subscriber and no input listener, changes nothing else, and
\* called on a scroller that is already destroyed it changes nothing.
C14_DestroyIsIdempotent ==
  [][last'.op = "destroy"
       => /\ animations' = <<>>
          /\ subscribers' = {}
          /\ ~listening'
          /\ UNCHANGED <<now, options, sizes, tracker, scrollLock, pointers>>
          /\ (animations = <<>> /\ subscribers = {} /\ ~listening)
               => UNCHANGED <<animations, scheduledBy, subscribers, listening>>]_vars

\* destroy() was called in the middle of a drag that had moved the content
C14_Witness ==
  /\ last.op = "destroy"
  /\ DragReference # Null
  /\ position # 0
  /\ animations = <<>> /\ subscribers = {} /\ ~listening

\* C15: the adapters reach the core's move() and end() only while a drag has
\* a reference point: a release, leave or move event with no press before
\* it calls neither.
C15_NoCoreCallWithoutPress ==
  [][last'.op \in {"move", "end"} => DragReference # Null]_vars

\* C16: resize() leaves position, the measurements, the animator, the lock,
\* the drag and the subscriptions as they are, starts and stops no
\* animation, emits nothing, and with the sizes it has already seen it leaves
\* the four range fields as they are too.
C16_ResizeTouchesOnlyRanges ==
  [][last'.op = "resize"
       => /\ UNCHANGED <<now, options, position, measurements, animator, scrollLock,
                         pointers, listening, subscribers>>
          /\ last'.starts = 0 /\ last'.stops = 0 /\ last'.emitted = <<>>
          /\ sizes' = sizes => ranges' = ranges]_vars

\* resize() ran while an animation was in flight and samples were recorded
C16_Witness ==
  /\ last.op = "resize"
  /\ position # 0
  /\ measurements # <<>>
  /\ animations # <<>>

WithinOverflow(p) == JsGe(p, minOverflowPosition) /\ JsLe(p, maxOverflowPosition)
WithinRange(p) == JsGe(p, minPosition) /\ JsLe(p, maxPosition)

\* C17: position stays within [minOverflowPosition, maxOverflowPosition]
\* under unlocked moves: the segment an unlocked move() schedules from a
\* position within the overflow range, applied in full, ends within the
\* overflow range (stated for a nonzero container whose content is not
\* smaller than it, so that neither C7 nor C11 is involved).
C17_PositionStaysWithinOverflow ==
  [][(/\ ~scrollLock /\ last'.op = "move"
      /\ containerSize > 0 /\ minPosition <= maxPosition
      /\ WithinOverflow(position))
       => WithinOverflow(JsAdd(animations'[1].startPosition,
                               animations'[1].distance))]_vars

\* C18: with no drag in progress and no animation active, position lies
\* within [minPosition, maxPosition] (stated for ranges with
\* minPosition <= maxPosition, so that C7 is not involved).
C18_AtRestWithinRange ==
  (DragReference = Null /\ animations = <<>> /\ minPosition <= maxPosition)
    => InRange

\* where position will be once the pending segment of a move() is applied
PendingTarget ==
  IF animations # <<>> /\ scheduledBy = "move"
    THEN JsAdd(animations[1].startPosition, animations[1].distance)
    ELSE position

\* C19: no drag delta is lost: while position and the sum of the deltas stay
\* inside [minPosition, maxPosition], the segment an unlocked move(delta)
\* schedules ends at the place the moves before it lead to plus delta, whether
\* or not a frame has applied the segment of the move before.
C19_NoDeltaIsLost ==
  [][(/\ ~scrollLock /\ last'.op = "move"
      /\ InRange
      /\ WithinRange(PendingTarget)
      /\ WithinRange(JsAdd(PendingTarget, MoveDelta)))
       => JsAdd(animations'[1].startPosition, animations'[1].distance)
            = JsAdd(PendingTarget, MoveDelta)]_vars

\* C20: an unlocked end() that directly follows an unlocked start(), with
\* position within the valid range, schedules a fling of distance 0,
\* whatever samples the frames of an interrupted animation recorded.
C20_FlingIgnoresAnimationSamples ==
  [][(/\ last.op = "start" /\ ~last.locked
      /\ last'.op = "end" /\ ~scrollLock
      /\ InRange)
       => animations'[1].distance = 0]_vars
=============================================================================
